---- MODULE Spec2Model ----
(***************************************************************************)
(* Model of api/Index.py: the POST /api/text-to-video handler              *)
(* generate_text_to_video.  One coroutine per incoming request; every      *)
(* `await` of the handler is a scheduling point, so each action below is   *)
(* the code that runs between two consecutive awaits.                      *)
(*                                                                         *)
(* Text is modelled by TLA+ strings and f-strings by concatenation (\o).   *)
(* A JSON field is a record [t, s]: t is "absent", "null" or "str" and s   *)
(* the string value.  A response body is a record carrying its raw text,   *)
(* whether it parses as JSON, the JSON type and the three fields the       *)
(* handler looks at.                                                       *)
(***************************************************************************)
EXTENDS Integers, Sequences, FiniteSets, TLC

\* ---------------------------------------------------------------- bounds
NumRequests == 2
NegWaits == 2
MaxWait == 5

Requests == 1..NumRequests
WaitValues == (0 - NegWaits)..MaxWait
Prompts == {"city"}

\* ------------------------------------------------------------- constants
VIDEO_API_BASE_URL == "https://yabes-api.pages.dev/api/ai/video/v2"
interval == 2

\* ------------------------------------------------------------ JSON values
Absent == [t |-> "absent", s |-> ""]
Null == [t |-> "null", s |-> ""]
Str(s) == [t |-> "str", s |-> s]

\* variant: `if video_url is None` instead of `if not video_url`
Truthy_NotNone(v) == v.t = "str"

\* body.get(key): a missing key reads as None, like a JSON null
Truthy(v) == v.t = "str" /\ v.s # ""

\* str(v) as the f-string of the status URL formats it
PyStr(v) == IF v.t = "str" THEN v.s ELSE "None"

DictBody(txt, tid, st, url) ==
    [text |-> txt, valid |-> TRUE, jt |-> "dict", taskId |-> tid, status |-> st, videoUrl |-> url]
ListBody(txt) ==
    [text |-> txt, valid |-> TRUE, jt |-> "list", taskId |-> Absent, status |-> Absent, videoUrl |-> Absent]
ScalarBody(txt) ==
    [text |-> txt, valid |-> TRUE, jt |-> "scalar", taskId |-> Absent, status |-> Absent, videoUrl |-> Absent]
RawBody(txt) ==
    [text |-> txt, valid |-> FALSE, jt |-> "none", taskId |-> Absent, status |-> Absent, videoUrl |-> Absent]

\* ------------------------------------------------- what the service may answer
NetError(msg) == [kind |-> "neterr", code |-> 0, body |-> RawBody(msg)]
Http(c, b) == [kind |-> "http", code |-> c, body |-> b]

TaskT1 == DictBody("{taskId:t1}", Str("t1"), Absent, Absent)
TaskT2 == DictBody("{taskId:t2}", Str("t2"), Absent, Absent)
TaskNull == DictBody("{taskId:null}", Null, Absent, Absent)
NoTaskId == DictBody("{error:quota}", Absent, Absent, Absent)

Pending == DictBody("{status:pending}", Absent, Str("pending"), Absent)
FailedWithUrl == DictBody("{status:failed,videoUrl:u9}", Absent, Str("failed"), Str("u9"))
NoStatus == DictBody("{videoUrl:u9}", Absent, Absent, Str("u9"))
DoneU1 == DictBody("{status:completed,videoUrl:u1}", Absent, Str("completed"), Str("u1"))
DoneEmpty == DictBody("{status:completed,videoUrl:}", Absent, Str("completed"), Str(""))
DoneMissing == DictBody("{status:completed}", Absent, Str("completed"), Absent)
DoneNull == DictBody("{status:completed,videoUrl:null}", Absent, Str("completed"), Null)

ErrorCodes == {302, 404, 503}
ErrorBodies == {RawBody("busy"), TaskT1, DoneU1}

CreateResponses ==
    { Http(200, b) : b \in {TaskT1, TaskT2, TaskNull, NoTaskId, ListBody("[]"), ScalarBody("7"), RawBody("<html>")} }
    \cup { Http(201, TaskT1) }
    \cup { Http(c, b) : c \in ErrorCodes, b \in ErrorBodies }
    \cup { NetError("connect failed") }

StatusResponses ==
    { Http(200, b) : b \in {Pending, FailedWithUrl, NoStatus, DoneU1, DoneEmpty, DoneMissing, DoneNull,
                            ListBody("[]"), RawBody("<html>")} }
    \cup { Http(c, b) : c \in ErrorCodes, b \in ErrorBodies }
    \cup { NetError("read timeout") }

\* ------------------------------------------------------- outcomes of a request
NoOutcome == [kind |-> "none", status_code |-> 0, status |-> "", video_url |-> "", message |-> "", detail |-> ""]
Completed(url) ==
    [kind |-> "ok", status_code |-> 200, status |-> "completed", video_url |-> url, message |-> "", detail |-> ""]
\* variant: the exhausted loop answered as a gateway timeout
StillProcessing_AsTimeout ==
    [kind |-> "error", status_code |-> 504, status |-> "", video_url |-> "", message |-> "",
     detail |-> "Video is still generating. Try again later."]

StillProcessing ==
    [kind |-> "ok", status_code |-> 200, status |-> "processing", video_url |-> "",
     message |-> "Video is still generating. Try again later.", detail |-> ""]
HTTPException(c, d) ==
    [kind |-> "error", status_code |-> c, status |-> "", video_url |-> "", message |-> "", detail |-> d]

\* ------------------------------------------------- exceptions inside the try
NoExc == [type |-> "none", code |-> 0, msg |-> ""]
HTTPStatusError(c, txt) == [type |-> "HTTPStatusError", code |-> c, msg |-> txt]
\* str() of a raised HTTPException is "<status_code>: <detail>"
RaisedHTTPException(d) == [type |-> "HTTPException", code |-> 500, msg |-> "500: " \o d]
OtherError(ty, m) == [type |-> ty, code |-> 0, msg |-> m]

\* response.raise_for_status(): raises unless the status code is 2xx
RaiseForStatus(resp) == ~(200 <= resp.code /\ resp.code <= 299)

\* variant: the `except httpx.HTTPStatusError` clause left out
Translate_Always500(e) ==
    [kind |-> "error", status_code |-> 500, status |-> "", video_url |-> "", message |-> "",
     detail |-> "Internal error: " \o e.msg]

\* variant: the `except Exception` clause left out, the framework answers
Translate_NoCatchAll(e) ==
    IF e.type = "HTTPStatusError"
    THEN HTTPException(e.code, "External API error: " \o e.msg)
    ELSE HTTPException(500, "Internal Server Error")

\* the two except clauses
Translate(e) ==
    IF e.type = "HTTPStatusError"
    THEN HTTPException(e.code, "External API error: " \o e.msg)
    ELSE HTTPException(500, "Internal error: " \o e.msg)

\* client.get + raise_for_status + json(), common to both calls
FetchError(resp) ==
    IF resp.kind = "neterr" THEN OtherError("TransportError", resp.body.text)
    ELSE IF RaiseForStatus(resp) THEN HTTPStatusError(resp.code, resp.body.text)
    ELSE IF ~resp.body.valid THEN OtherError("JSONDecodeError", "Expecting value")
    ELSE NoExc

\* variant: the key test always succeeds
HasTaskId_Always(body) == TRUE

\* "taskId" in create_data, for a dict
HasTaskId(body) == body.taskId.t # "absent"

\* variant: lines 38-39 left out, task id read with create_data.get("taskId")
CreateError_NoTaskCheck(resp) ==
    IF FetchError(resp) # NoExc THEN FetchError(resp)
    ELSE IF resp.body.jt # "dict" THEN OtherError("AttributeError", "object has no attribute 'get'")
    ELSE NoExc

\* the exception lines 34-41 raise on a create response, NoExc if none
CreateError(resp) ==
    IF FetchError(resp) # NoExc THEN FetchError(resp)
    ELSE IF resp.body.jt = "scalar" THEN OtherError("TypeError", "argument of type 'int' is not iterable")
    ELSE IF resp.body.jt = "list" \/ ~HasTaskId(resp.body)
         THEN RaisedHTTPException("Failed to create video task")
    ELSE NoExc

CreateUrl(p) == VIDEO_API_BASE_URL \o "?action=create&prompt=" \o p

\* variant: the f prefix of the status URL string left out
StatusUrl_NoId(tid) == VIDEO_API_BASE_URL \o "?action=status&taskId=" \o "{task_id}"

StatusUrl(tid) == VIDEO_API_BASE_URL \o "?action=status&taskId=" \o PyStr(tid)

\* variant: at least one poll whatever the budget
Attempts_AtLeastOne(w) == IF w \div interval < 1 THEN 1 ELSE w \div interval

\* variant: attempts rounded up
Attempts_RoundUp(w) == (w + interval - 1) \div interval

\* attempts = request_data.max_wait_seconds // interval
Attempts(w) == w \div interval

\* variant: compared with another status word
IsCompleted_WrongWord(body) == body.status = Str("success")

\* variant: a snapshot that carries a videoUrl also counts as completed
IsCompleted_OrHasUrl(body) == body.status = Str("completed") \/ Truthy(body.videoUrl)

\* status_data.get("status") == "completed"
IsCompleted(body) == body.status = Str("completed")

\* variant: a network error of a status call is swallowed and polling goes on
StatusError_RetryTransport(resp) ==
    IF resp.kind = "neterr" THEN NoExc
    ELSE IF FetchError(resp) # NoExc THEN FetchError(resp)
    ELSE IF resp.body.jt # "dict" THEN OtherError("AttributeError", "'list' object has no attribute 'get'")
    ELSE IF IsCompleted(resp.body) /\ ~Truthy(resp.body.videoUrl)
         THEN RaisedHTTPException("Video URL missing")
    ELSE NoExc

\* the exception lines 51-58 raise on a status response, NoExc if none
StatusError(resp) ==
    IF FetchError(resp) # NoExc THEN FetchError(resp)
    ELSE IF resp.body.jt # "dict" THEN OtherError("AttributeError", "'list' object has no attribute 'get'")
    ELSE IF IsCompleted(resp.body) /\ ~Truthy(resp.body.videoUrl)
         THEN RaisedHTTPException("Video URL missing")
    ELSE NoExc

\* variant: the locals kept in module-level globals
Frame_Shared(r) == 1

\* the locals of invocation r live in its own coroutine frame
Frame(r) == r

\* variant: client.aclose() called before the return statements only
ReleasesClient_OnReturnOnly(h) == h = "return"

\* `async with` runs the client's __aexit__ on return and on raise alike
ReleasesClient(h) == h \in {"return", "raise"}

\* ------------------------------------------------------------------ state
VARIABLES
    pc,            \* position of each coroutine
    incoming,      \* the request body each invocation was called with
    request_data,  \* frame: the parsed Text2VideoRequest
    task_id,       \* frame: create_data["taskId"]
    status_url,    \* frame
    attempts,      \* frame
    iter,          \* frame: iterations of `for _ in range(attempts)` started
    clientOpen,    \* the request's httpx.AsyncClient is open
    outstanding,   \* external calls issued and not yet returned
    calls,         \* external calls made, in order: [action, url]
    sleeps,        \* asyncio.sleep(interval) calls made
    received,      \* responses received, in order
    how,           \* how the try block was left: "return" or "raise"
    pending,       \* value being returned / exception being raised
    outcome        \* what the caller got

frameVars == <<request_data, task_id, status_url, attempts, iter>>
vars == <<pc, incoming, request_data, task_id, status_url, attempts, iter, clientOpen,
          outstanding, calls, sleeps, received, how, pending, outcome>>

NoRequest == [prompt |-> "", max_wait_seconds |-> 0]

Init ==
    /\ pc = [r \in Requests |-> "idle"]
    /\ incoming = [r \in Requests |-> NoRequest]
    /\ request_data = [r \in Requests |-> NoRequest]
    /\ task_id = [r \in Requests |-> Absent]
    /\ status_url = [r \in Requests |-> ""]
    /\ attempts = [r \in Requests |-> 0]
    /\ iter = [r \in Requests |-> 0]
    /\ clientOpen = [r \in Requests |-> FALSE]
    /\ outstanding = [r \in Requests |-> 0]
    /\ calls = [r \in Requests |-> <<>>]
    /\ sleeps = [r \in Requests |-> 0]
    /\ received = [r \in Requests |-> <<>>]
    /\ how = [r \in Requests |-> "none"]
    /\ pending = [r \in Requests |-> NoOutcome]
    /\ outcome = [r \in Requests |-> NoOutcome]

\* variant: the handler blocks for good instead of leaving the try block
Leave_Hang(r, h, val) ==
    /\ pc' = [pc EXCEPT ![r] = "hung"]
    /\ how' = [how EXCEPT ![r] = h]
    /\ pending' = [pending EXCEPT ![r] = val]

\* leave the try block with a return value or an exception (lines 59, 62, 64-67)
Leave(r, h, val) ==
    /\ pc' = [pc EXCEPT ![r] = "closing"]
    /\ how' = [how EXCEPT ![r] = h]
    /\ pending' = [pending EXCEPT ![r] = val]

\* head of `for _ in range(attempts)` with n iterations already started and
\* att the value of attempts: sleep again, or fall out to line 62
LoopHead(r, n, att) ==
    IF n < att
    THEN /\ iter' = [iter EXCEPT ![Frame(r)] = n + 1]
         /\ sleeps' = [sleeps EXCEPT ![r] = @ + 1]
         /\ pc' = [pc EXCEPT ![r] = "sleeping"]
         /\ UNCHANGED <<how, pending>>
    ELSE /\ iter' = [iter EXCEPT ![Frame(r)] = n]
         /\ UNCHANGED sleeps
         /\ Leave(r, "return", StillProcessing)

\* lines 25-30: the handler is entered and opens its client
Receive(r, p, w) ==
    /\ pc[r] = "idle"
    /\ incoming' = [incoming EXCEPT ![r] = [prompt |-> p, max_wait_seconds |-> w]]
    /\ request_data' = [request_data EXCEPT ![Frame(r)] = [prompt |-> p, max_wait_seconds |-> w]]
    /\ clientOpen' = [clientOpen EXCEPT ![r] = TRUE]
    /\ pc' = [pc EXCEPT ![r] = "created"]
    /\ UNCHANGED <<task_id, status_url, attempts, iter, outstanding, calls, sleeps,
                   received, how, pending, outcome>>

\* variant: attempts computed first and no task created when it is not positive
IssueCreate_SkipWhenNoAttempts(r) ==
    /\ pc[r] = "created"
    /\ IF Attempts(request_data[Frame(r)].max_wait_seconds) <= 0
       THEN /\ Leave(r, "return", StillProcessing)
            /\ UNCHANGED <<calls, outstanding>>
       ELSE /\ calls' = [calls EXCEPT ![r] = Append(@, [action |-> "create", url |-> CreateUrl(request_data[Frame(r)].prompt)])]
            /\ outstanding' = [outstanding EXCEPT ![r] = @ + 1]
            /\ pc' = [pc EXCEPT ![r] = "await_create"]
            /\ UNCHANGED <<how, pending>>
    /\ UNCHANGED <<incoming, frameVars, clientOpen, sleeps, received, outcome>>

\* lines 33-34: the create call is sent
IssueCreate(r) ==
    /\ pc[r] = "created"
    /\ calls' = [calls EXCEPT ![r] = Append(@, [action |-> "create", url |-> CreateUrl(request_data[Frame(r)].prompt)])]
    /\ outstanding' = [outstanding EXCEPT ![r] = @ + 1]
    /\ pc' = [pc EXCEPT ![r] = "await_create"]
    /\ UNCHANGED <<incoming, frameVars, clientOpen, sleeps, received, how, pending, outcome>>

\* lines 34-50: the create call returns; up to the first sleep
CreateReturns(r, resp) ==
    /\ pc[r] = "await_create"
    /\ outstanding' = [outstanding EXCEPT ![r] = @ - 1]
    /\ received' = [received EXCEPT ![r] = Append(@, resp)]
    /\ IF CreateError(resp) # NoExc
       THEN /\ Leave(r, "raise", Translate(CreateError(resp)))
            /\ UNCHANGED <<task_id, status_url, attempts, iter, sleeps>>
       ELSE /\ task_id' = [task_id EXCEPT ![Frame(r)] = resp.body.taskId]
            /\ status_url' = [status_url EXCEPT ![Frame(r)] = StatusUrl(resp.body.taskId)]
            /\ attempts' = [attempts EXCEPT ![Frame(r)] =
                               Attempts(request_data[Frame(r)].max_wait_seconds)]
            /\ LoopHead(r, 0, Attempts(request_data[Frame(r)].max_wait_seconds))
    /\ UNCHANGED <<incoming, request_data, clientOpen, calls, outcome>>

\* lines 50-51: the sleep is over and the status call is sent
IssueStatus(r) ==
    /\ pc[r] = "sleeping"
    /\ calls' = [calls EXCEPT ![r] = Append(@, [action |-> "status", url |-> status_url[Frame(r)]])]
    /\ outstanding' = [outstanding EXCEPT ![r] = @ + 1]
    /\ pc' = [pc EXCEPT ![r] = "await_status"]
    /\ UNCHANGED <<incoming, frameVars, clientOpen, sleeps, received, how, pending, outcome>>

\* lines 51-62: the status call returns; up to the next sleep or the return
StatusReturns(r, resp) ==
    /\ pc[r] = "await_status"
    /\ outstanding' = [outstanding EXCEPT ![r] = @ - 1]
    /\ received' = [received EXCEPT ![r] = Append(@, resp)]
    /\ IF StatusError(resp) # NoExc
       THEN /\ Leave(r, "raise", Translate(StatusError(resp)))
            /\ UNCHANGED <<iter, sleeps>>
       ELSE IF IsCompleted(resp.body)
       THEN /\ Leave(r, "return", Completed(resp.body.videoUrl.s))
            /\ UNCHANGED <<iter, sleeps>>
       ELSE LoopHead(r, iter[Frame(r)], attempts[Frame(r)])
    /\ UNCHANGED <<incoming, request_data, task_id, status_url, attempts, clientOpen, calls, outcome>>

\* line 30: leaving `async with` closes the client, then the caller is answered
CloseClient(r) ==
    /\ pc[r] = "closing"
    /\ clientOpen' = [clientOpen EXCEPT ![r] = ~ReleasesClient(how[r])]
    /\ outcome' = [outcome EXCEPT ![r] = pending[r]]
    /\ pc' = [pc EXCEPT ![r] = "done"]
    /\ UNCHANGED <<incoming, frameVars, outstanding, calls, sleeps, received, how, pending>>

\* one request, every answer the service can give
Next ==
    \/ \E p \in Prompts, w \in WaitValues : Receive(1, p, w)
    \/ IssueCreate(1)
    \/ \E resp \in CreateResponses : CreateReturns(1, resp)
    \/ IssueStatus(1)
    \/ \E resp \in StatusResponses : StatusReturns(1, resp)
    \/ CloseClient(1)

Spec == Init /\ [][Next]_vars

\* one request whose coroutine is resumed whenever it can run: every external
\* call and every sleep it awaits returns, and the event loop then runs it on
Progress(r) ==
    \/ IssueCreate(r)
    \/ \E resp \in CreateResponses : CreateReturns(r, resp)
    \/ IssueStatus(r)
    \/ \E resp \in StatusResponses : StatusReturns(r, resp)
    \/ CloseClient(r)

SpecLive == Init /\ [][Next]_vars /\ WF_vars(Progress(1))

\* several requests in flight, their steps interleaved in any order
ConcWaits == {interval, MaxWait - 1}
ConcCreateResponses == {Http(200, TaskT1), Http(200, TaskT2), Http(200, NoTaskId), Http(503, RawBody("busy"))}
ConcStatusResponses == {Http(200, Pending), Http(200, DoneU1), Http(200, DoneMissing), Http(404, RawBody("busy"))}

NextConc ==
    \E r \in Requests :
        \/ \E p \in Prompts, w \in ConcWaits : Receive(r, p, w)
        \/ IssueCreate(r)
        \/ \E resp \in ConcCreateResponses : CreateReturns(r, resp)
        \/ IssueStatus(r)
        \/ \E resp \in ConcStatusResponses : StatusReturns(r, resp)
        \/ CloseClient(r)

SpecConc == Init /\ [][NextConc]_vars

\* ------------------------------------------------------- reading the logs
StatusCallCount(r) == Cardinality({k \in 1..Len(calls[r]) : calls[r][k].action = "status"})
CreateCallCount(r) == Cardinality({k \in 1..Len(calls[r]) : calls[r][k].action = "create"})
MaxWaitOf(r) == incoming[r].max_wait_seconds
Ended(r) == pc[r] \in {"closing", "done"}

\* a 2xx answer whose body is a JSON object
OkDict(resp) ==
    /\ resp.kind = "http"
    /\ resp.code \in 200..299
    /\ resp.body.valid
    /\ resp.body.jt = "dict"
\* an answer with a non-success HTTP status
HttpFailure(resp) == resp.kind = "http" /\ resp.code \notin 200..299
\* a good status answer that does not say "completed"
NotCompletedYet(resp) == OkDict(resp) /\ resp.body.status # [t |-> "str", s |-> "completed"]
CompletedWithUrl(resp) ==
    /\ OkDict(resp)
    /\ resp.body.status = [t |-> "str", s |-> "completed"]
    /\ resp.body.videoUrl.t = "str"
    /\ resp.body.videoUrl.s # ""
CompletedWithoutUrl(resp) ==
    /\ OkDict(resp)
    /\ resp.body.status = [t |-> "str", s |-> "completed"]
    /\ (resp.body.videoUrl.t # "str" \/ resp.body.videoUrl.s = "")
IsProcessingResult(o) ==
    /\ o.kind = "ok"
    /\ o.status = "processing"
    /\ o.message = "Video is still generating. Try again later."
IsCompletedResult(o) == o.kind = "ok" /\ o.status = "completed"
IsError(o) == o.kind = "error"

\* C1: with max_wait_seconds = w > 0 no run issues more than floor(w/2)
\* status calls, and a run that ends in 'processing' has issued at most
\* floor(w/2) of them.
C1_AtMostFloorStatusCalls ==
    \A r \in Requests :
        (pc[r] # "idle" /\ MaxWaitOf(r) > 0) =>
            StatusCallCount(r) <= MaxWaitOf(r) \div 2

C1_Witness ==
    \E r \in Requests :
        /\ pc[r] = "done"
        /\ MaxWaitOf(r) = 5
        /\ IsProcessingResult(outcome[r])
        /\ StatusCallCount(r) = 2

\* C2: a status answer "completed" with a non-empty videoUrl ends the loop
\* at that iteration: the result is {completed, that URL} and no status call
\* follows it, whatever number of attempts remains.
C2_CompletedReturnsAtOnce ==
    \A r \in Requests :
        \A k \in 2..Len(received[r]) :
            CompletedWithUrl(received[r][k]) =>
                /\ k = Len(received[r])
                /\ Len(calls[r]) = k
                /\ Ended(r)
                /\ pending[r].kind = "ok"
                /\ pending[r].status = "completed"
                /\ pending[r].video_url = received[r][k].body.videoUrl.s
                /\ (pc[r] = "done" => outcome[r] = pending[r])

C2_Witness ==
    \E r \in Requests :
        /\ pc[r] = "done"
        /\ Len(received[r]) = 2
        /\ CompletedWithUrl(received[r][2])
        /\ MaxWaitOf(r) \div 2 >= 2
        /\ outcome[r].video_url = "u1"

\* C3: a create answer that is a 2xx JSON object without taskId makes the
\* request fail with status code 500 and no status call is ever issued.
C3_NoTaskIdFails500 ==
    \A r \in Requests :
        (Len(received[r]) >= 1 /\ OkDict(received[r][1]) /\ received[r][1].body.taskId.t = "absent") =>
            /\ Ended(r)
            /\ IsError(pending[r])
            /\ pending[r].status_code = 500
            /\ StatusCallCount(r) = 0
            /\ sleeps[r] = 0
            /\ (pc[r] = "done" => outcome[r] = pending[r])

C3_Witness ==
    \E r \in Requests :
        /\ pc[r] = "done"
        /\ OkDict(received[r][1])
        /\ received[r][1].body.taskId.t = "absent"
        /\ MaxWaitOf(r) >= 2
        /\ outcome[r].status_code = 500

\* C4: a status answer "completed" whose videoUrl is missing or empty makes
\* the request fail with status code 500; no 'completed' result lacks a
\* non-empty video_url, and the request does not end in 'processing'.
C4_MissingUrlFails500 ==
    \A r \in Requests :
        /\ \A k \in 2..Len(received[r]) :
              CompletedWithoutUrl(received[r][k]) =>
                  /\ k = Len(received[r])
                  /\ Ended(r)
                  /\ IsError(pending[r])
                  /\ pending[r].status_code = 500
                  /\ (pc[r] = "done" => outcome[r] = pending[r])
        /\ (IsCompletedResult(pending[r]) => pending[r].video_url # "")
        /\ (IsCompletedResult(outcome[r]) => outcome[r].video_url # "")

C4_Witness ==
    \E r \in Requests :
        /\ pc[r] = "done"
        /\ Len(received[r]) = 3
        /\ CompletedWithoutUrl(received[r][3])
        /\ received[r][3].body.videoUrl.t = "str"
        /\ outcome[r].status_code = 500

\* C5: when the create call or a status call is answered with a non-success
\* HTTP status code c and body b, the request fails with status code exactly
\* c and a detail that contains b.
C5_HttpErrorMirrored ==
    \A r \in Requests :
        \A k \in 1..Len(received[r]) :
            HttpFailure(received[r][k]) =>
                /\ k = Len(received[r])
                /\ Ended(r)
                /\ IsError(pending[r])
                /\ pending[r].status_code = received[r][k].code
                /\ pending[r].detail = "External API error: " \o received[r][k].body.text
                /\ (pc[r] = "done" => outcome[r] = pending[r])

C5_Witness ==
    \E r \in Requests :
        /\ pc[r] = "done"
        /\ Len(received[r]) = 1
        /\ received[r][1].kind = "http"
        /\ received[r][1].code = 503
        /\ outcome[r].status_code = 503
        /\ outcome[r].detail = "External API error: busy"

\* C6: when the create call succeeds and all floor(max_wait_seconds/2)
\* status calls succeed without reporting "completed", the request returns
\* the non-error 'processing' result after exactly floor(max_wait_seconds/2)
\* status calls.
C6_ExhaustedReturnsProcessing ==
    \A r \in Requests :
        ( /\ Len(received[r]) >= 1
          /\ Len(received[r]) - 1 = MaxWaitOf(r) \div 2
          /\ OkDict(received[r][1])
          /\ received[r][1].body.taskId.t # "absent"
          /\ \A k \in 2..Len(received[r]) : NotCompletedYet(received[r][k]) ) =>
            /\ Ended(r)
            /\ IsProcessingResult(pending[r])
            /\ pending[r].status_code = 200
            /\ StatusCallCount(r) = MaxWaitOf(r) \div 2
            /\ (pc[r] = "done" => outcome[r] = pending[r])

C6_Witness ==
    \E r \in Requests :
        /\ pc[r] = "done"
        /\ MaxWaitOf(r) = 4
        /\ Len(received[r]) = 3
        /\ received[r][2].body.status.s = "pending"
        /\ received[r][3].body.status.s = "pending"
        /\ IsProcessingResult(outcome[r])
        /\ StatusCallCount(r) = 2

\* the state of a request in the terms of the state machine
ReqState(r) ==
    CASE pc[r] = "idle" -> "None"
      [] pc[r] \in {"created", "await_create"} -> "Created"
      [] pc[r] \in {"sleeping", "await_status"} -> "Polling"
      [] pc[r] = "closing" -> "Ending"
      [] pc[r] = "done" /\ IsCompletedResult(outcome[r]) -> "Completed"
      [] pc[r] = "done" /\ IsProcessingResult(outcome[r]) -> "StillProcessing"
      [] pc[r] = "done" /\ IsError(outcome[r]) -> "Failed"
      [] OTHER -> "Unknown"
TerminalStates == {"Completed", "StillProcessing", "Failed"}
GotTaskId(r) ==
    /\ Len(received[r]) >= 1
    /\ OkDict(received[r][1])
    /\ received[r][1].body.taskId.t # "absent"
    /\ task_id[r] = received[r][1].body.taskId
AllowedMoves ==
    {<<"None", "Created">>, <<"Created", "Created">>, <<"Created", "Polling">>, <<"Created", "Ending">>,
     <<"Polling", "Polling">>, <<"Polling", "Ending">>,
     <<"Ending", "Completed">>, <<"Ending", "StillProcessing">>, <<"Ending", "Failed">>}

\* C7: a request moves Created -> Polling -> {Completed | StillProcessing |
\* Failed}: it polls only once a task id was obtained, a finished request is
\* in exactly one terminal state, and from a terminal state it neither changes
\* state nor issues another external call.
C7_StateMachine ==
    /\ [](\A r \in Requests :
            /\ (ReqState(r) = "Polling" => GotTaskId(r))
            /\ (ReqState(r) \in {"Completed", "StillProcessing"} => GotTaskId(r))
            /\ (pc[r] = "done" => ReqState(r) \in TerminalStates)
            /\ ~(IsCompletedResult(outcome[r]) /\ IsProcessingResult(outcome[r]))
            /\ ~(IsCompletedResult(outcome[r]) /\ IsError(outcome[r]))
            /\ ~(IsProcessingResult(outcome[r]) /\ IsError(outcome[r])))
    /\ [][\A r \in Requests :
            /\ (ReqState(r)' # ReqState(r) => <<ReqState(r), ReqState(r)'>> \in AllowedMoves)
            /\ (ReqState(r) \in TerminalStates =>
                   /\ ReqState(r)' = ReqState(r)
                   /\ outcome'[r] = outcome[r]
                   /\ calls'[r] = calls[r]
                   /\ outstanding'[r] = outstanding[r]
                   /\ sleeps'[r] = sleeps[r])]_vars

C7_Witness ==
    \E r \in Requests :
        /\ ReqState(r) = "Completed"
        /\ GotTaskId(r)
        /\ StatusCallCount(r) = 2
        /\ outstanding[r] = 0

\* C8: the HTTP client a request opened is closed on every way the request
\* can end; no finished request has its client still open.
C8_ClientReleased ==
    \A r \in Requests :
        /\ (pc[r] = "done" => ~clientOpen[r])
        /\ (pc[r] \in {"created", "await_create", "sleeping", "await_status", "closing"} => clientOpen[r])

C8_Witness ==
    \E r \in Requests :
        /\ pc[r] = "done"
        /\ IsError(outcome[r])
        /\ how[r] = "raise"
        /\ Len(received[r]) = 2
        /\ ~clientOpen[r]

\* C9: a request issues exactly one create call, before every status call;
\* every status call carries the task id that create call returned, and a
\* call is issued only when no other call of the request is outstanding.
C9_OneCreateThenStatus ==
    \A r \in Requests :
        /\ CreateCallCount(r) = (IF pc[r] \in {"idle", "created"} THEN 0 ELSE 1)
        /\ (Len(calls[r]) >= 1 => calls[r][1].action = "create")
        /\ \A k \in 2..Len(calls[r]) :
              /\ calls[r][k].action = "status"
              /\ Len(received[r]) >= 1
              /\ calls[r][k].url = "https://yabes-api.pages.dev/api/ai/video/v2?action=status&taskId="
                                      \o (IF received[r][1].body.taskId.t = "str"
                                          THEN received[r][1].body.taskId.s ELSE "None")
        /\ outstanding[r] \in {0, 1}
        /\ Len(calls[r]) = Len(received[r]) + outstanding[r]
        /\ (outstanding[r] = 1 <=> pc[r] \in {"await_create", "await_status"})

C9_Witness ==
    \E r \in Requests :
        /\ Len(calls[r]) = 3
        /\ calls[r][3].action = "status"
        /\ calls[r][3].url = "https://yabes-api.pages.dev/api/ai/video/v2?action=status&taskId=t2"
        /\ received[r][1].body.taskId.s = "t2"
        /\ outstanding[r] = 1

\* the handler run alone on the request body and the answers to its own calls
RECURSIVE RunPoll(_, _, _)
RunPoll(att, rs, n) ==
    IF n >= att THEN [outcome |-> StillProcessing, statusCalls |-> n]
    ELSE IF StatusError(Head(rs)) # NoExc
         THEN [outcome |-> Translate(StatusError(Head(rs))), statusCalls |-> n + 1]
    ELSE IF IsCompleted(Head(rs).body)
         THEN [outcome |-> Completed(Head(rs).body.videoUrl.s), statusCalls |-> n + 1]
    ELSE RunPoll(att, Tail(rs), n + 1)
Run(req, rs) ==
    IF CreateError(Head(rs)) # NoExc
    THEN [outcome |-> Translate(CreateError(Head(rs))), statusCalls |-> 0]
    ELSE RunPoll(req.max_wait_seconds \div 2, Tail(rs), 0)

\* C10: with several requests served at once and their steps interleaved in
\* any order, the outcome of a request and the number of status calls it
\* issues are those of the handler run alone on its own request body and on
\* the answers to its own calls, and a step of one request changes nothing of
\* another request.
C10_RequestsIndependent ==
    /\ [](\A r \in Requests :
            pc[r] = "done" =>
                /\ outcome[r] = Run(incoming[r], received[r]).outcome
                /\ StatusCallCount(r) = Run(incoming[r], received[r]).statusCalls)
    /\ [][\A r, q \in Requests :
            (r # q /\ pc'[r] # pc[r]) =>
                /\ pc'[q] = pc[q]
                /\ request_data'[q] = request_data[q]
                /\ task_id'[q] = task_id[q]
                /\ status_url'[q] = status_url[q]
                /\ attempts'[q] = attempts[q]
                /\ iter'[q] = iter[q]
                /\ clientOpen'[q] = clientOpen[q]
                /\ calls'[q] = calls[q]
                /\ outcome'[q] = outcome[q]]_vars

C10_Witness ==
    \E r, q \in Requests :
        /\ r # q
        /\ pc[r] = "done"
        /\ IsCompletedResult(outcome[r])
        /\ StatusCallCount(r) = 2
        /\ pc[q] = "await_status"
        /\ StatusCallCount(q) = 1
        /\ incoming[r].max_wait_seconds # incoming[q].max_wait_seconds
        /\ task_id[r] # task_id[q]

\* the k-th answer of a request makes the call, or the check that follows it, fail
FailureAnswer(k, resp) ==
    \/ resp.kind = "neterr"
    \/ HttpFailure(resp)
    \/ ~resp.body.valid
    \/ resp.body.jt # "dict"
    \/ (k = 1 /\ resp.body.taskId.t = "absent")
    \/ (k > 1 /\ CompletedWithoutUrl(resp))

\* C11: no failure is retried: the first failed external call (HTTP error
\* status, network error, malformed body) or the first missing task id or
\* missing video URL is the last call of the request, which ends Failed.
C11_NoRetryAfterFailure ==
    \A r \in Requests :
        \A k \in 1..Len(received[r]) :
            FailureAnswer(k, received[r][k]) =>
                /\ k = Len(received[r])
                /\ Len(calls[r]) = k
                /\ outstanding[r] = 0
                /\ sleeps[r] = k - 1
                /\ Ended(r)
                /\ IsError(pending[r])
                /\ (pc[r] = "done" => ReqState(r) = "Failed")

C11_Witness ==
    \E r \in Requests :
        /\ pc[r] = "done"
        /\ Len(received[r]) = 2
        /\ received[r][2].kind = "neterr"
        /\ MaxWaitOf(r) \div 2 >= 2
        /\ Len(calls[r]) = 2
        /\ ReqState(r) = "Failed"

\* C12: a failure of the create call or of a status call that is not a
\* non-success HTTP status (network error, body that is not JSON) makes the
\* request fail with status code 500 and a detail that carries the
\* exception's message; the exception reaches the caller translated.
C12_OtherFailuresAre500 ==
    \A r \in Requests :
        \A k \in 1..Len(received[r]) :
            /\ received[r][k].kind = "neterr" =>
                  /\ Ended(r)
                  /\ pending[r].kind = "error"
                  /\ pending[r].status_code = 500
                  /\ pending[r].detail = "Internal error: " \o received[r][k].body.text
                  /\ (pc[r] = "done" => outcome[r] = pending[r])
            /\ (received[r][k].kind = "http" /\ received[r][k].code \in 200..299
                  /\ ~received[r][k].body.valid) =>
                  /\ Ended(r)
                  /\ pending[r].kind = "error"
                  /\ pending[r].status_code = 500
                  /\ pending[r].detail = "Internal error: Expecting value"
                  /\ (pc[r] = "done" => outcome[r] = pending[r])

C12_Witness ==
    \E r \in Requests :
        /\ pc[r] = "done"
        /\ Len(received[r]) = 2
        /\ received[r][2].kind = "http"
        /\ received[r][2].code = 200
        /\ ~received[r][2].body.valid
        /\ outcome[r].status_code = 500
        /\ outcome[r].detail = "Internal error: Expecting value"

\* C13: a status snapshot whose status is not exactly "completed" (pending,
\* failed, or no status at all) counts as still pending: the loop goes on to
\* its next iteration, or falls out to 'processing' when none is left, and
\* the snapshot's videoUrl is never returned.
C13_OtherStatusIsPending ==
    \A r \in Requests :
        /\ \A k \in 2..Len(received[r]) :
              (NotCompletedYet(received[r][k]) /\ k = Len(received[r]) /\ Len(calls[r]) = k) =>
                  IF k - 1 < MaxWaitOf(r) \div 2
                  THEN pc[r] = "sleeping" /\ sleeps[r] = k /\ pending[r].kind = "none"
                  ELSE Ended(r) /\ IsProcessingResult(pending[r])
        /\ (IsCompletedResult(pending[r]) =>
               /\ CompletedWithUrl(received[r][Len(received[r])])
               /\ pending[r].video_url = received[r][Len(received[r])].body.videoUrl.s)

C13_Witness ==
    \E r \in Requests :
        /\ pc[r] = "sleeping"
        /\ Len(received[r]) = 2
        /\ received[r][2].body.status.s = "failed"
        /\ received[r][2].body.videoUrl.s = "u9"
        /\ sleeps[r] = 2

\* C14: every status call comes right after one suspend of 2 seconds, no
\* suspend follows the last status call, so the time a request has spent
\* suspended is 2 * (its number of status calls) and never exceeds
\* max_wait_seconds.
C14_SuspendedWithinBudget ==
    \A r \in Requests :
        /\ sleeps[r] = StatusCallCount(r) + (IF pc[r] = "sleeping" THEN 1 ELSE 0)
        /\ (Ended(r) => sleeps[r] = StatusCallCount(r))
        /\ (Ended(r) => 2 * sleeps[r] <= MaxWaitOf(r))

\* C15: when every external call and every suspend returns, a request that
\* was received ends in one of Completed, StillProcessing, Failed, whatever
\* max_wait_seconds and the answers are.
C15_EveryRequestEnds ==
    \A r \in Requests : (pc[r] # "idle") ~> (pc[r] = "done" /\ ReqState(r) \in TerminalStates)

C15_Witness ==
    \E r \in Requests :
        /\ pc[r] = "done"
        /\ ReqState(r) = "StillProcessing"
        /\ StatusCallCount(r) = 2
        /\ sleeps[r] = 2

\* C16: max_wait_seconds is not validated: with max_wait_seconds < 2 (1, 0 or
\* negative) and a create answer carrying a taskId, the request issues the
\* create call, no status call and no suspend, and returns 'processing', not
\* an error.
C16_ShortBudgetPollsNothing ==
    \A r \in Requests :
        (pc[r] # "idle" /\ MaxWaitOf(r) < 2) =>
            /\ StatusCallCount(r) = 0
            /\ sleeps[r] = 0
            /\ pc[r] \notin {"sleeping", "await_status"}
            /\ (Len(received[r]) >= 1 /\ OkDict(received[r][1]) /\ received[r][1].body.taskId.t # "absent") =>
                   /\ CreateCallCount(r) = 1
                   /\ Len(received[r]) = 1
                   /\ Ended(r)
                   /\ IsProcessingResult(pending[r])
                   /\ (pc[r] = "done" => outcome[r] = pending[r])

C16_Witness ==
    \E r \in Requests :
        /\ pc[r] = "done"
        /\ MaxWaitOf(r) = -1
        /\ received[r][1].body.taskId.s = "t1"
        /\ IsProcessingResult(outcome[r])
        /\ sleeps[r] = 0

\* C17: the create call is issued for every request, whatever
\* max_wait_seconds, and before attempts is computed; a request that polls
\* zero times has still created a task, whose id no later call and no result
\* carries.
C17_CreateAlwaysIssued ==
    /\ [](\A r \in Requests :
            /\ pc[r] \notin {"idle", "created"} =>
                  /\ Len(calls[r]) >= 1
                  /\ calls[r][1].action = "create"
                  /\ calls[r][1].url = "https://yabes-api.pages.dev/api/ai/video/v2?action=create&prompt="
                                          \o incoming[r].prompt
            /\ (attempts[r] # 0 \/ status_url[r] # "") => Len(received[r]) >= 1
            /\ (pc[r] = "done" /\ GotTaskId(r) /\ MaxWaitOf(r) \div 2 <= 0) =>
                  /\ CreateCallCount(r) = 1
                  /\ Len(calls[r]) = 1
                  /\ IsProcessingResult(outcome[r])
                  /\ outcome[r].video_url = "")
    /\ [][\A r \in Requests :
            attempts'[r] # attempts[r] => (CreateCallCount(r) = 1 /\ Len(received[r]) = 0 /\ Len(received'[r]) = 1)]_vars

C17_Witness ==
    \E r \in Requests :
        /\ pc[r] = "done"
        /\ MaxWaitOf(r) = 0
        /\ GotTaskId(r)
        /\ task_id[r].s = "t2"
        /\ CreateCallCount(r) = 1
        /\ StatusCallCount(r) = 0
        /\ IsProcessingResult(outcome[r])

====
